---- MODULE Spec2Model ----
(***************************************************************************)
(* Queue-driven download orchestrator of flac_bulk_download:               *)
(*   state.py            AppState (queue, counters, flag, log ring)        *)
(*   app.py              Flask handlers upload_file / start_download and   *)
(*                       the background thread run_async_process           *)
(*   async_downloader.py AsyncDownloader (drain loop, attempt strategy)    *)
(*   config.py           configuration values                              *)
(*                                                                         *)
(* Request handlers run on the threads of the Flask server, every accepted *)
(* start spawns one more background thread, and AppState has no lock: a    *)
(* step of the model is one access to the shared state, and the steps of   *)
(* different threads interleave freely.                                    *)
(***************************************************************************)
EXTENDS Integers, Sequences, FiniteSets, TLC

\* ---------------------------------------------------------------- bounds
\* number of requests (uploads and starts together) in one behaviour
MaxRequests == 3
\* number of add_tracks_to_queue calls in one behaviour
MaxEnqueues == 2
\* longest batch handed to one add_tracks_to_queue call
MaxBatch == 2
\* number of background threads start_download may spawn in one behaviour
MaxRuns == 2
\* number of add_log calls followed statement by statement in one behaviour
MaxLogCalls == 3
\* number of status requests in one behaviour
MaxPolls == 2

\* ---------------------------------------------------- program constants
\* state.py:48  if len(self.recent_logs) > 50
LogCap == 50
\* config.py:16 MAX_CONCURRENT_DOWNLOADS
MAX_CONCURRENT_DOWNLOADS == 3

\* track strings ("Title - Artist"); never empty (extract_tracks.py:52)
Tracks == {"A - X", "B - Y"}
\* request-handler threads of the web server
Handlers == {"h1", "h2"}
\* background threads, in the order start_download spawns them: as many as the
\* bound allows, and at least one more than the limiter has slots
Runs == 1..(IF MaxRuns > MAX_CONCURRENT_DOWNLOADS THEN MaxRuns
            ELSE MAX_CONCURRENT_DOWNLOADS + 1)
\* what one invocation of the external tool can end with (_run_hifi_command)
Outcomes == {"ok", "exit", "timeout", "exc"}
\* values of config.PREFERRED_QUALITY; config.py does not define the attribute,
\* "UNSET" is that file as shipped (reading it raises AttributeError)
Qualities == {"flac", "mp3", "UNSET"}
\* marks "no track" (Python None)
None == "None"

VARIABLES
    \* AppState (state.py:8-15)
    is_downloading, total_tracks, completed_tracks, success_count, fail_count,
    current_track, recent_logs, queue,
    \* config.py
    PREFERRED_QUALITY, ALLOW_QUALITY_FALLBACK,
    \* failed_tracks.txt, one record per appended line
    failed_file,
    \* request handlers: position and locals of the call in progress
    hpc, hloc,
    \* background threads: position and locals
    wpc, wloc,
    \* history, used to bound the behaviour and to state claims: the calls made
    \* so far; the tracks submitted while the calls were made one after the
    \* other and nothing was dequeued (serial); the queued tracks that were
    \* appended while is_downloading was true (midrun); the status the last
    \* answered start request returned (resp); the add_log calls followed
    \* statement by statement (logcalls); the dispatches whose preferred attempt
    \* failed and whose fallback attempt succeeded (fbok); the tracks dequeued
    \* (pops: a thread keeps the number of its pop as its local ticket); the
    \* entries appended to the queue (appended) and the calls of download_track
    \* (dispatched); the status requests answered (polls) and the last answer
    \* (status); for each handler inside add_tracks_to_queue, the tracks that were
    \* in the queue when the call was made (known); the track of the last call of
    \* download_track (lastdisp)
    hist,
    \* remove_duplicate_downloads.py: the files of downloads/ (name, content hash,
    \* whether the file can be read) and the script's position and locals. The
    \* directory is followed only where the script runs (SpecCleanup).
    downloads, cleanup

appstate == <<is_downloading, total_tracks, completed_tracks, success_count,
              fail_count, current_track, recent_logs, queue>>
cfgvars == <<PREFERRED_QUALITY, ALLOW_QUALITY_FALLBACK>>
cleanvars == <<downloads, cleanup>>
vars == <<is_downloading, total_tracks, completed_tracks, success_count, fail_count,
          current_track, recent_logs, queue, PREFERRED_QUALITY,
          ALLOW_QUALITY_FALLBACK, failed_file, hpc, hloc, wpc, wloc, hist,
          downloads, cleanup>>

\* ---------------------------------------------------------------- helpers
Range(s) == {s[i] : i \in 1..Len(s)}

\* all sequences over S of length 1..n
SeqsUpTo(S, n) == UNION {[1..k -> S] : k \in 1..n}

\* one line of the log ring; the "[HH:MM:SS]" prefix is left out
Line(kind, track) == [kind |-> kind, track |-> track]

\* AppState.add_log: insert at the front, then drop the last line when the
\* ring holds more than LogCap lines
add_log(logs, line) ==
    LET ins == <<line>> \o logs
    IN  IF Len(ins) > LogCap THEN SubSeq(ins, 1, Len(ins) - 1) ELSE ins

\* ------------------------------------------------------------------- Init
NoLocals == [batch |-> <<>>, i |-> 0, current_set |-> {}, added_count |-> 0, n |-> 0]
NoRun == [track |-> None, msg |-> "", slept |-> FALSE, attempts |-> 0, permits |-> 0,
          rd |-> 0, exc |-> "", ticket |-> 0, last |-> ""]

\* the cleanup script is not running and downloads/ holds no file
NoCleanup ==
    /\ downloads = {}
    /\ cleanup = [pc |-> "idle", listing |-> {}, todo |-> <<>>, failed |-> FALSE]

\* no status request answered yet
NoStatus == [is_downloading |-> FALSE, total |-> 0, completed |-> 0, success |-> 0,
             failed |-> 0, current_track |-> "", logs |-> <<>>]

Init ==
    /\ is_downloading = FALSE
    /\ total_tracks = 0
    /\ completed_tracks = 0
    /\ success_count = 0
    /\ fail_count = 0
    /\ current_track = ""
    /\ recent_logs = <<>>
    /\ queue = <<>>
    /\ PREFERRED_QUALITY \in Qualities
    /\ ALLOW_QUALITY_FALLBACK \in BOOLEAN
    /\ failed_file = <<>>
    /\ hpc = [h \in Handlers |-> "idle"]
    /\ hloc = [h \in Handlers |-> NoLocals]
    /\ wpc = [w \in Runs |-> "unborn"]
    /\ wloc = [w \in Runs |-> NoRun]
    /\ NoCleanup
    /\ hist = [enqueues |-> 0, starts |-> 0, submitted |-> <<>>, serial |-> TRUE,
               midrun |-> {}, resp |-> "", logcalls |-> 0, fbok |-> 0, pops |-> 0,
               appended |-> 0, dispatched |-> 0, polls |-> 0, status |-> NoStatus,
               known |-> [h \in Handlers |-> {}], lastdisp |-> ""]

\* ------------------------------------------- upload_file / add_tracks_to_queue
\* positions of a handler inside AppState.add_tracks_to_queue
InAddTracks == {"enq_loop", "enq_len", "enq_total", "enq_log"}

\* (mutant of CurrentSet: the tracks being downloaded counted as queued)
CurrentSetWithInFlight(q) == Range(q) \cup ({wloc[w].track : w \in Runs} \ {None})

\* state.py:28  set(self.queue)
CurrentSet(q) == Range(q)

\* state.py:28  current_set = set(self.queue)   (the call comes from app.py:63,
\* which passes only non-empty lists)
EnqueueCall(h, batch) ==
    /\ hpc[h] = "idle"
    /\ hist.enqueues < MaxEnqueues
    /\ hist.enqueues + hist.starts < MaxRequests
    /\ hpc' = [hpc EXCEPT ![h] = "enq_loop"]
    /\ hloc' = [hloc EXCEPT ![h] = [batch |-> batch, i |-> 1,
                                    current_set |-> CurrentSet(queue),
                                    added_count |-> 0, n |-> 0]]
    /\ LET alone == \A g \in Handlers \ {h} : hpc[g] \notin InAddTracks
           ok == hist.serial /\ alone
       IN  hist' = [hist EXCEPT !.enqueues = @ + 1,
                                !.serial = ok,
                                !.known[h] = Range(queue),
                                !.submitted = IF ok THEN @ \o batch ELSE <<>>]
    /\ UNCHANGED <<appstate, cfgvars, cleanvars, failed_file, wpc, wloc>>

\* (mutant of NotInQueue: the membership test left out)
NotInQueueAlways(t, current_set) == TRUE

\* state.py:31  if t not in current_set
NotInQueue(t, current_set) == t \notin current_set

\* state.py:30-34  one iteration of "for t in new_tracks"
EnqueueItem(h) ==
    /\ hpc[h] = "enq_loop"
    /\ LET L == hloc[h]
           t == L.batch[L.i]
           fresh == NotInQueue(t, L.current_set)
           last == L.i = Len(L.batch)
       IN  /\ queue' = IF fresh THEN Append(queue, t) ELSE queue
           /\ hloc' = [hloc EXCEPT ![h] =
                         [L EXCEPT !.i = @ + 1,
                                   !.current_set = IF fresh THEN @ \cup {t} ELSE @,
                                   !.added_count = IF fresh THEN @ + 1 ELSE @]]
           /\ hpc' = [hpc EXCEPT ![h] = IF last THEN "enq_len" ELSE "enq_loop"]
           /\ hist' = [hist EXCEPT !.midrun = IF fresh /\ is_downloading
                                              THEN @ \cup {t} ELSE @,
                                    !.appended = IF fresh THEN @ + 1 ELSE @,
                                    !.known[h] = IF last THEN {} ELSE @]
    /\ UNCHANGED <<is_downloading, total_tracks, completed_tracks, success_count,
                   fail_count, current_track, recent_logs, cfgvars, cleanvars, failed_file,
                   wpc, wloc>>

\* state.py:36  the read half of  self.total_tracks = len(self.queue)
EnqueueLen(h) ==
    /\ hpc[h] = "enq_len"
    /\ hloc' = [hloc EXCEPT ![h].n = Len(queue)]
    /\ hpc' = [hpc EXCEPT ![h] = "enq_total"]
    /\ UNCHANGED <<appstate, cfgvars, cleanvars, failed_file, wpc, wloc, hist>>

\* state.py:36  the store half of  self.total_tracks = len(self.queue)
EnqueueTotal(h) ==
    /\ hpc[h] = "enq_total"
    /\ total_tracks' = hloc[h].n
    /\ hpc' = [hpc EXCEPT ![h] = IF hloc[h].added_count > 0 THEN "enq_log" ELSE "up_log"]
    /\ UNCHANGED <<is_downloading, completed_tracks, success_count, fail_count,
                   current_track, recent_logs, queue, cfgvars, cleanvars, failed_file, hloc,
                   wpc, wloc, hist>>

\* state.py:37-38  if added_count > 0: self.add_log("Added n tracks to queue.")
EnqueueLog(h) ==
    /\ hpc[h] = "enq_log"
    /\ recent_logs' = add_log(recent_logs, Line("Added", ""))
    /\ hpc' = [hpc EXCEPT ![h] = "up_log"]
    /\ UNCHANGED <<is_downloading, total_tracks, completed_tracks, success_count,
                   fail_count, current_track, queue, cfgvars, cleanvars, failed_file, hloc,
                   wpc, wloc, hist>>

\* app.py:65-77  append to track_list.txt, then add_log("Queued ..."); an
\* exception of the append is caught and logged as "Error processing ..."
UploadLog(h) ==
    /\ hpc[h] = "up_log"
    /\ \E written \in BOOLEAN :
          recent_logs' = add_log(recent_logs,
                                 Line(IF written THEN "Queued" ELSE "Error processing", ""))
    /\ hpc' = [hpc EXCEPT ![h] = "idle"]
    /\ hloc' = [hloc EXCEPT ![h] = NoLocals]
    /\ UNCHANGED <<is_downloading, total_tracks, completed_tracks, success_count,
                   fail_count, current_track, queue, cfgvars, cleanvars, failed_file,
                   wpc, wloc, hist>>

\* ------------------------------------------------------------ start_download
\* (mutant of AlreadyRunning: the test of the flag left out)
AlreadyRunningNever(flag) == FALSE

\* app.py:83  if state.is_downloading
AlreadyRunning(flag) == flag

\* app.py:83-84  if state.is_downloading: return 'already_running'
StartCheckFlag(h) ==
    /\ hpc[h] = "idle"
    /\ hist.starts < MaxRuns
    /\ hist.enqueues + hist.starts < MaxRequests
    /\ hist' = [hist EXCEPT !.starts = @ + 1,
                             !.resp = IF AlreadyRunning(is_downloading)
                                      THEN "already_running" ELSE @]
    /\ hpc' = [hpc EXCEPT ![h] = IF AlreadyRunning(is_downloading) THEN "idle"
                                  ELSE "start_queue"]
    /\ UNCHANGED <<appstate, cfgvars, cleanvars, failed_file, hloc, wpc, wloc>>

\* the background thread the next accepted start creates
NextRun == CHOOSE w \in Runs : wpc[w] = "unborn" /\ \A v \in Runs : v < w => wpc[v] # "unborn"

\* (mutant of QueueEmpty: the test of the queue left out)
QueueEmptyNever(q) == FALSE

\* app.py:86  if not state.queue
QueueEmpty(q) == q = <<>>

\* app.py:86-94  if not state.queue: return 'empty_queue'; otherwise
\* threading.Thread(target=run_async_process).start(); return 'started'
StartCheckQueue(h) ==
    /\ hpc[h] = "start_queue"
    /\ hpc' = [hpc EXCEPT ![h] = "idle"]
    /\ wpc' = IF QueueEmpty(queue) THEN wpc ELSE [wpc EXCEPT ![NextRun] = "init"]
    /\ hist' = [hist EXCEPT !.resp = IF QueueEmpty(queue) THEN "empty_queue"
                                      ELSE "started"]
    /\ UNCHANGED <<appstate, cfgvars, cleanvars, failed_file, hloc, wloc>>

\* ---------------------------------------------------------- run_async_process
\* app.py:28-30 / async_downloader.py:19-37,144  AsyncDownloader(): a semaphore
\* of its own, then check_hifi_installed, which logs and raises when the tool is
\* missing; with the tool found process_queue begins: state.is_downloading = True
RunInit(w) ==
    /\ wpc[w] = "init"
    /\ \E found \in BOOLEAN :
          IF found
          THEN /\ wpc' = [wpc EXCEPT ![w] = "log_started"]
               /\ wloc' = [wloc EXCEPT ![w].permits = MAX_CONCURRENT_DOWNLOADS]
               /\ is_downloading' = TRUE
               /\ UNCHANGED recent_logs
          ELSE /\ wpc' = [wpc EXCEPT ![w] = "exc_log"]
               /\ recent_logs' = add_log(recent_logs, Line("Error: tool not found", ""))
               /\ wloc' = [wloc EXCEPT ![w].exc = "FileNotFoundError"]
               /\ UNCHANGED is_downloading
    /\ UNCHANGED <<total_tracks, completed_tracks, success_count,
                   fail_count, current_track, queue, cfgvars, cleanvars, failed_file, hpc, hloc,
                   hist>>

\* app.py:31-34  except Exception: state.add_log("Critical Error: ..."); the
\* exception on its way is kept in the thread's local exc
ExcLog(w) ==
    /\ wpc[w] = "exc_log"
    /\ recent_logs' = add_log(recent_logs, Line("Critical Error", ""))
    /\ wpc' = [wpc EXCEPT ![w] = "exc_flag"]
    /\ UNCHANGED <<is_downloading, total_tracks, completed_tracks, success_count,
                   fail_count, current_track, queue, cfgvars, cleanvars, failed_file, hpc, hloc,
                   wloc, hist>>

\* app.py:34  state.is_downloading = False, the thread ends
ExcFlag(w) ==
    /\ wpc[w] = "exc_flag"
    /\ is_downloading' = FALSE
    /\ wpc' = [wpc EXCEPT ![w] = "aborted"]
    /\ wloc' = [wloc EXCEPT ![w] = NoRun]
    /\ UNCHANGED <<total_tracks, completed_tracks, success_count, fail_count,
                   current_track, recent_logs, queue, cfgvars, cleanvars, failed_file, hpc, hloc,
                   hist>>

\* ------------------------------------------------ AsyncDownloader.process_queue
\* async_downloader.py:145  state.add_log("Download processor started.")
LogStarted(w) ==
    /\ wpc[w] = "log_started"
    /\ recent_logs' = add_log(recent_logs, Line("Download processor started.", ""))
    /\ wpc' = [wpc EXCEPT ![w] = "pop_check"]
    /\ UNCHANGED <<is_downloading, total_tracks, completed_tracks, success_count,
                   fail_count, current_track, queue, cfgvars, cleanvars, failed_file, hpc, hloc,
                   wloc, hist>>

\* state.py:41  "if self.queue:" of pop_next_track; on an empty queue it returns
\* None and the loop breaks (async_downloader.py:158-168)
PopCheck(w) ==
    /\ wpc[w] = "pop_check"
    /\ wpc' = [wpc EXCEPT ![w] = IF queue # <<>> THEN "pop" ELSE "clear_flag"]
    /\ UNCHANGED <<appstate, cfgvars, cleanvars, failed_file, hpc, hloc, wloc, hist>>

\* (mutant of AfterPop: the head returned and left in the list)
AfterPopKeepsHead(q) == q

\* state.py:42  the list after self.queue.pop(0)
AfterPop(q) == Tail(q)

\* state.py:42  return self.queue.pop(0); IndexError when another thread has
\* emptied the list since the check
Pop(w) ==
    /\ wpc[w] = "pop"
    /\ IF queue = <<>>
       THEN /\ wpc' = [wpc EXCEPT ![w] = "exc_log"]
            /\ wloc' = [wloc EXCEPT ![w].exc = "IndexError"]
            /\ UNCHANGED <<queue, hist>>
       ELSE /\ queue' = AfterPop(queue)
            /\ wloc' = [wloc EXCEPT ![w].track = Head(queue),
                                    ![w].ticket = hist.pops + 1]
            /\ wpc' = [wpc EXCEPT ![w] = "set_current"]
            /\ hist' = [hist EXCEPT !.serial = FALSE, !.submitted = <<>>,
                                     !.midrun = @ \cap Range(Tail(queue)),
                                     !.pops = @ + 1]
    /\ UNCHANGED <<is_downloading, total_tracks, completed_tracks, success_count,
                   fail_count, current_track, recent_logs, cfgvars, cleanvars, failed_file,
                   hpc, hloc>>

\* async_downloader.py:186  state.is_downloading = False
ClearFlag(w) ==
    /\ wpc[w] = "clear_flag"
    /\ is_downloading' = FALSE
    /\ wpc' = [wpc EXCEPT ![w] = "fin_log"]
    /\ UNCHANGED <<total_tracks, completed_tracks, success_count, fail_count,
                   current_track, recent_logs, queue, cfgvars, cleanvars, failed_file, hpc, hloc,
                   wloc, hist>>

\* async_downloader.py:187  state.add_log("Queue empty. Processing finished.")
FinLog(w) ==
    /\ wpc[w] = "fin_log"
    /\ recent_logs' = add_log(recent_logs, Line("Queue empty. Processing finished.", ""))
    /\ wpc' = [wpc EXCEPT ![w] = "done"]
    /\ wloc' = [wloc EXCEPT ![w] = NoRun]
    /\ UNCHANGED <<is_downloading, total_tracks, completed_tracks, success_count,
                   fail_count, current_track, queue, cfgvars, cleanvars, failed_file, hpc, hloc,
                   hist>>

\* async_downloader.py:179  the read half of  state.completed_tracks += 1
CompletedRead(w) ==
    /\ wpc[w] = "completed_rd"
    /\ wloc' = [wloc EXCEPT ![w].rd = completed_tracks]
    /\ wpc' = [wpc EXCEPT ![w] = "completed_wr"]
    /\ UNCHANGED <<appstate, cfgvars, cleanvars, failed_file, hpc, hloc, hist>>

\* async_downloader.py:179  the store half of  state.completed_tracks += 1
CompletedWrite(w) ==
    /\ wpc[w] = "completed_wr"
    /\ completed_tracks' = wloc[w].rd + 1
    /\ wloc' = [wloc EXCEPT ![w].rd = 0]
    /\ wpc' = [wpc EXCEPT ![w] = "pop_check"]
    /\ UNCHANGED <<is_downloading, total_tracks, success_count, fail_count,
                   current_track, recent_logs, queue, cfgvars, cleanvars, failed_file, hpc, hloc,
                   hist>>

\* ----------------------------------------------- AsyncDownloader.download_track
\* (mutant of Reason: a timeout reported with the captured output)
ReasonTimeoutAsOutput(outcome) ==
    CASE outcome = "exit" -> "output"
      [] outcome = "timeout" -> "output"
      [] outcome = "exc" -> "exception"
      [] OTHER -> "Success"

\* async_downloader.py:39-63  the message _run_hifi_command returns with a failure:
\* the captured output, "Timeout", or str(e)
Reason(outcome) ==
    CASE outcome = "exit" -> "output"
      [] outcome = "timeout" -> "Timeout"
      [] outcome = "exc" -> "exception"
      [] OTHER -> "Success"

\* (mutant of FallbackAllowed: the comparison with "mp3" left out)
FallbackWheneverEnabled == ALLOW_QUALITY_FALLBACK

\* async_downloader.py:112  if config.ALLOW_QUALITY_FALLBACK and target_format != "mp3"
FallbackAllowed == ALLOW_QUALITY_FALLBACK /\ PREFERRED_QUALITY # "mp3"

\* (mutant of Release: the slot kept)
ReleaseNothing(p) == p

\* async_downloader.py:87  leaving "async with self.semaphore" gives the slot back
Release(p) == p + 1

\* the locals of a thread that is outside download_track
Outside(L) == [NoRun EXCEPT !.permits = L.permits]

\* (mutant of SetCurrentTrack: the assignment left out)
KeepCurrentTrack(w) == current_track

\* async_downloader.py:89  state.current_track = track
SetCurrentTrack(w) == wloc[w].track

\* async_downloader.py:87-92  async with self.semaphore; state.current_track = track;
\* await asyncio.sleep(config.RATE_LIMIT_DELAY)
DownloadEnter(w) ==
    /\ wpc[w] = "set_current"
    /\ wloc[w].permits > 0
    /\ current_track' = SetCurrentTrack(w)
    /\ wloc' = [wloc EXCEPT ![w].permits = @ - 1, ![w].slept = TRUE]
    /\ wpc' = [wpc EXCEPT ![w] = "attempt1"]
    /\ hist' = [hist EXCEPT !.dispatched = @ + 1, !.lastdisp = wloc[w].track]
    /\ UNCHANGED <<is_downloading, total_tracks, completed_tracks, success_count,
                   fail_count, recent_logs, queue, cfgvars, cleanvars, failed_file, hpc, hloc>>

\* (mutant of AfterAttempt: a success of the fallback attempt taken for a failure)
AfterAttemptFallbackLost(w, outcome, retry) ==
    LET good == outcome = "ok" /\ wloc[w].attempts = 0
    IN  /\ wloc' = [wloc EXCEPT ![w].attempts = @ + 1, ![w].slept = FALSE,
                                ![w].msg = Reason(outcome), ![w].last = outcome,
                                ![w].rd = IF good THEN success_count
                                          ELSE IF retry THEN 0 ELSE fail_count]
        /\ wpc' = [wpc EXCEPT ![w] = IF good THEN "success_wr"
                                     ELSE IF retry THEN "attempt2" ELSE "fail_wr"]
        /\ recent_logs' = IF ~good /\ retry
                          THEN add_log(recent_logs, Line("Retrying (MP3)", wloc[w].track))
                          ELSE recent_logs

\* what follows an attempt (async_downloader.py:103-126): after a success the
\* read half of  state.success_count += 1;  after a failure that is retried,
\* state.add_log(f"Retrying (MP3): {track}");  after a final failure the read half
\* of  state.fail_count += 1
AfterAttempt(w, outcome, retry) ==
    /\ wloc' = [wloc EXCEPT ![w].attempts = @ + 1, ![w].slept = FALSE,
                            ![w].msg = Reason(outcome), ![w].last = outcome,
                            ![w].rd = IF outcome = "ok" THEN success_count
                                      ELSE IF retry THEN 0 ELSE fail_count]
    /\ wpc' = [wpc EXCEPT ![w] = IF outcome = "ok" THEN "success_wr"
                                 ELSE IF retry THEN "attempt2" ELSE "fail_wr"]
    /\ recent_logs' = IF outcome # "ok" /\ retry
                      THEN add_log(recent_logs, Line("Retrying (MP3)", wloc[w].track))
                      ELSE recent_logs

\* async_downloader.py:100-115  target_format = config.PREFERRED_QUALITY (an
\* AttributeError when config does not define it, which leaves the semaphore
\* block and the drain loop), then the preferred attempt
AttemptPreferred(w) ==
    /\ wpc[w] = "attempt1"
    /\ IF PREFERRED_QUALITY = "UNSET"
       THEN /\ wpc' = [wpc EXCEPT ![w] = "exc_log"]
            /\ wloc' = [wloc EXCEPT ![w] = [Outside(@) EXCEPT !.permits = Release(@),
                                                              !.exc = "AttributeError"]]
            /\ UNCHANGED recent_logs
       ELSE \E outcome \in Outcomes : AfterAttempt(w, outcome, FallbackAllowed)
    /\ UNCHANGED <<is_downloading, total_tracks, completed_tracks, success_count,
                   fail_count, current_track, queue, cfgvars, cleanvars, failed_file, hpc, hloc,
                   hist>>

\* async_downloader.py:116-126  the fallback attempt, with format "mp3"
AttemptFallback(w) ==
    /\ wpc[w] = "attempt2"
    /\ \E outcome \in Outcomes :
          /\ AfterAttempt(w, outcome, FALSE)
          /\ hist' = [hist EXCEPT !.fbok = IF outcome = "ok" THEN @ + 1 ELSE @]
    /\ UNCHANGED <<is_downloading, total_tracks, completed_tracks, success_count,
                   fail_count, current_track, queue, cfgvars, cleanvars, failed_file, hpc, hloc>>

\* async_downloader.py:105,120  the store half of  state.success_count += 1
SuccessWrite(w) ==
    /\ wpc[w] = "success_wr"
    /\ success_count' = wloc[w].rd + 1
    /\ wloc' = [wloc EXCEPT ![w].rd = 0]
    /\ wpc' = [wpc EXCEPT ![w] = "success_log"]
    /\ UNCHANGED <<is_downloading, total_tracks, completed_tracks, fail_count,
                   current_track, recent_logs, queue, cfgvars, cleanvars, failed_file, hpc, hloc,
                   hist>>

\* async_downloader.py:106-107,121-122  add_log("Success: ..."), return True: the
\* semaphore block is left
SuccessLog(w) ==
    /\ wpc[w] = "success_log"
    /\ recent_logs' = add_log(recent_logs,
           Line(IF wloc[w].attempts = 1 THEN "Success" ELSE "Success (MP3)", wloc[w].track))
    /\ wloc' = [wloc EXCEPT ![w] = [Outside(@) EXCEPT !.permits = Release(@)]]
    /\ wpc' = [wpc EXCEPT ![w] = "completed_rd"]
    /\ UNCHANGED <<is_downloading, total_tracks, completed_tracks, success_count,
                   fail_count, current_track, queue, cfgvars, cleanvars, failed_file, hpc, hloc,
                   hist>>

\* async_downloader.py:126  the store half of  state.fail_count += 1
FailWrite(w) ==
    /\ wpc[w] = "fail_wr"
    /\ fail_count' = wloc[w].rd + 1
    /\ wloc' = [wloc EXCEPT ![w].rd = 0]
    /\ wpc' = [wpc EXCEPT ![w] = "fail_log"]
    /\ UNCHANGED <<is_downloading, total_tracks, completed_tracks, success_count,
                   current_track, recent_logs, queue, cfgvars, cleanvars, failed_file, hpc, hloc,
                   hist>>

\* async_downloader.py:128-129  state.add_log(f"Failed: {track} - {error}")
FailLog(w) ==
    /\ wpc[w] = "fail_log"
    /\ recent_logs' = add_log(recent_logs, Line("Failed", wloc[w].track))
    /\ wpc' = [wpc EXCEPT ![w] = "log_failure"]
    /\ UNCHANGED <<is_downloading, total_tracks, completed_tracks, success_count,
                   fail_count, current_track, queue, cfgvars, cleanvars, failed_file, hpc, hloc,
                   wloc, hist>>

\* async_downloader.py:130-136  await self._log_failure(track, msg): one line
\* appended to failed_tracks.txt. Nothing catches an OSError of the open or the
\* write: it leaves download_track and process_queue.
LogFailure(w) ==
    /\ wpc[w] = "log_failure"
    /\ \E written \in BOOLEAN :
          IF written
          THEN /\ failed_file' = Append(failed_file,
                                        [track |-> wloc[w].track, reason |-> wloc[w].msg])
               /\ wpc' = [wpc EXCEPT ![w] = "completed_rd"]
               /\ wloc' = [wloc EXCEPT ![w] = [Outside(@) EXCEPT !.permits = Release(@)]]
          ELSE /\ UNCHANGED failed_file
               /\ wpc' = [wpc EXCEPT ![w] = "exc_log"]
               /\ wloc' = [wloc EXCEPT ![w] = [Outside(@) EXCEPT !.permits = Release(@),
                                                                 !.exc = "OSError"]]
    /\ UNCHANGED <<appstate, cfgvars, cleanvars, hpc, hloc, hist>>

\* ------------------------------------------------------------------- Next
\* the steps of AppState.add_tracks_to_queue and of upload_file after it
AddTracksStep(h) ==
    \/ EnqueueItem(h)
    \/ EnqueueLen(h)
    \/ EnqueueTotal(h)
    \/ EnqueueLog(h)
    \/ UploadLog(h)

\* POST /start-download served by handler thread h
StartStep(h) ==
    \/ StartCheckFlag(h)
    \/ StartCheckQueue(h)

\* a step of background thread w
RunStep(w) ==
    \/ RunInit(w)
    \/ ExcLog(w)
    \/ ExcFlag(w)
    \/ LogStarted(w)
    \/ PopCheck(w)
    \/ Pop(w)
    \/ ClearFlag(w)
    \/ FinLog(w)
    \/ DownloadEnter(w)
    \/ AttemptPreferred(w)
    \/ AttemptFallback(w)
    \/ SuccessWrite(w)
    \/ SuccessLog(w)
    \/ FailWrite(w)
    \/ FailLog(w)
    \/ LogFailure(w)
    \/ CompletedRead(w)
    \/ CompletedWrite(w)

\* The whole program with one request handler thread: uploads of one-track
\* playlists and starts arrive one after the other, the background threads run
\* beside them.
Next ==
    \/ \E t \in Tracks : EnqueueCall("h1", <<t>>)
    \/ AddTracksStep("h1")
    \/ StartStep("h1")
    \/ \E w \in Runs : RunStep(w)

Spec == Init /\ [][Next]_vars

\* Uploads alone, served by all handler threads at once. No step of an upload
\* reads the configuration: it is fixed to the value config.py:25 sets and the
\* format the repository is named after.
InitQueue == Init /\ PREFERRED_QUALITY = "flac" /\ ALLOW_QUALITY_FALLBACK = TRUE

NextQueue ==
    \E h \in Handlers :
       \/ \E batch \in SeqsUpTo(Tracks, MaxBatch) : EnqueueCall(h, batch)
       \/ AddTracksStep(h)

SpecQueue == InitQueue /\ [][NextQueue]_vars

\* One background thread draining a queue that one upload has filled, with no
\* request arriving meanwhile: the state when start_download has just returned
\* 'started'.
NoDuplicates(q) == \A i, j \in 1..Len(q) : q[i] = q[j] => i = j

InitDrain ==
    /\ is_downloading = FALSE
    /\ queue \in {q \in SeqsUpTo(Tracks, MaxBatch) : NoDuplicates(q)}
    /\ total_tracks = Len(queue)
    /\ completed_tracks = 0
    /\ success_count = 0
    /\ fail_count = 0
    /\ current_track = ""
    /\ recent_logs = <<Line("Queued", ""), Line("Added", "")>>
    /\ PREFERRED_QUALITY \in Qualities
    /\ ALLOW_QUALITY_FALLBACK \in BOOLEAN
    /\ failed_file = <<>>
    /\ hpc = [h \in Handlers |-> "idle"]
    /\ hloc = [h \in Handlers |-> NoLocals]
    /\ wpc = [w \in Runs |-> IF w = 1 THEN "init" ELSE "unborn"]
    /\ wloc = [w \in Runs |-> NoRun]
    /\ NoCleanup
    /\ hist = [enqueues |-> 1, starts |-> 1, submitted |-> queue, serial |-> TRUE,
               midrun |-> {}, resp |-> "started", logcalls |-> 0, fbok |-> 0, pops |-> 0,
               appended |-> Len(queue), dispatched |-> 0, polls |-> 0,
               status |-> NoStatus,
               known |-> [h \in Handlers |-> {}], lastdisp |-> ""]

NextDrain == RunStep(1)

SpecDrain == InitDrain /\ [][NextDrain]_vars

\* The same, with the progress the code has: the thread gets scheduled, every
\* await returns (asyncio.wait_for bounds the external tool by TIMEOUT_PER_TRACK,
\* async_downloader.py:48-51) and every file operation returns or raises.
SpecDrainLive == SpecDrain /\ WF_vars(NextDrain)

\* The race of start requests: one upload has queued a playlist of four tracks
\* and every background thread has been spawned by a start request that was
\* served before any thread set is_downloading (start_download reads the flag,
\* app.py:83, only process_queue writes it, async_downloader.py:144). The
\* behaviours run until the attempts are in flight: the external tool has not
\* returned yet.
RacePlaylist == <<"A - X", "B - Y", "C - Z", "D - W">>

InitRace ==
    /\ is_downloading = FALSE
    /\ queue = RacePlaylist
    /\ total_tracks = Len(queue)
    /\ completed_tracks = 0
    /\ success_count = 0
    /\ fail_count = 0
    /\ current_track = ""
    /\ recent_logs = <<Line("Queued", ""), Line("Added", "")>>
    /\ PREFERRED_QUALITY = "flac"
    /\ ALLOW_QUALITY_FALLBACK = TRUE
    /\ failed_file = <<>>
    /\ hpc = [h \in Handlers |-> "idle"]
    /\ hloc = [h \in Handlers |-> NoLocals]
    /\ wpc = [w \in Runs |-> "init"]
    /\ wloc = [w \in Runs |-> NoRun]
    /\ NoCleanup
    /\ hist = [enqueues |-> 1, starts |-> Cardinality(Runs), submitted |-> queue,
               serial |-> TRUE, midrun |-> {}, resp |-> "started", logcalls |-> 0, fbok |-> 0, pops |-> 0,
               appended |-> Len(queue), dispatched |-> 0, polls |-> 0,
               status |-> NoStatus,
               known |-> [h \in Handlers |-> {}], lastdisp |-> ""]

\* a step of background thread w up to the start of its first attempt
DispatchStep(w) ==
    \/ RunInit(w)
    \/ ExcLog(w)
    \/ ExcFlag(w)
    \/ LogStarted(w)
    \/ PopCheck(w)
    \/ Pop(w)
    \/ DownloadEnter(w)

NextRace == \E w \in Runs : DispatchStep(w)

SpecRace == InitRace /\ [][NextRace]_vars

\* ------------------------------------------------------------------ get_status
\* (mutant of GetStatus: the answer takes the lines out of the ring)
GetStatusDrainsLogs(h) ==
    /\ hpc[h] = "idle"
    /\ hist.polls < MaxPolls
    /\ recent_logs' = <<>>
    /\ hist' = [hist EXCEPT !.polls = @ + 1,
                             !.status = [is_downloading |-> is_downloading,
                                         total |-> total_tracks,
                                         completed |-> completed_tracks,
                                         success |-> success_count,
                                         failed |-> fail_count,
                                         current_track |-> current_track,
                                         logs |-> recent_logs]]
    /\ UNCHANGED <<is_downloading, total_tracks, completed_tracks, success_count,
                   fail_count, current_track, queue, cfgvars, cleanvars, failed_file, hpc, hloc,
                   wpc, wloc>>

\* app.py:120-130  GET /status: jsonify of the fields of state. The handler reads
\* them one after the other; the answer is taken here at one moment.
GetStatus(h) ==
    /\ hpc[h] = "idle"
    /\ hist.polls < MaxPolls
    /\ hist' = [hist EXCEPT !.polls = @ + 1,
                             !.status = [is_downloading |-> is_downloading,
                                         total |-> total_tracks,
                                         completed |-> completed_tracks,
                                         success |-> success_count,
                                         failed |-> fail_count,
                                         current_track |-> current_track,
                                         logs |-> recent_logs]]
    /\ UNCHANGED <<appstate, cfgvars, cleanvars, failed_file, hpc, hloc, wpc, wloc>>

\* One background thread draining the queue while status requests are served.
NextPoll ==
    \/ NextDrain
    \/ \E h \in Handlers : GetStatus(h)

SpecPoll == InitDrain /\ [][NextPoll]_vars

\* AppState.add_log statement by statement, on a ring that is nearly full. In
\* the specifications above the ring never holds LogCap lines, "len(...) > 50"
\* is false there and add_log comes down to its insert, one step. Here the
\* handler threads serve uploads of files without a valid track (app.py:71
\* state.add_log(f"No valid tracks found in {filename}")), as earlier uploads
\* did that filled the ring; the second field of a line is the file's name.
InitLog ==
    /\ is_downloading = FALSE
    /\ total_tracks = 0
    /\ completed_tracks = 0
    /\ success_count = 0
    /\ fail_count = 0
    /\ current_track = ""
    /\ \E n \in (LogCap - 2)..LogCap :
          recent_logs = [i \in 1..n |-> Line("No valid tracks found", "old")]
    /\ queue = <<>>
    /\ PREFERRED_QUALITY = "flac"
    /\ ALLOW_QUALITY_FALLBACK = TRUE
    /\ failed_file = <<>>
    /\ hpc = [h \in Handlers |-> "idle"]
    /\ hloc = [h \in Handlers |-> NoLocals]
    /\ wpc = [w \in Runs |-> "unborn"]
    /\ wloc = [w \in Runs |-> NoRun]
    /\ NoCleanup
    /\ hist = [enqueues |-> 0, starts |-> 0, submitted |-> <<>>, serial |-> TRUE,
               midrun |-> {}, resp |-> "", logcalls |-> 0, fbok |-> 0, pops |-> 0,
               appended |-> 0, dispatched |-> 0, polls |-> 0, status |-> NoStatus,
               known |-> [h \in Handlers |-> {}], lastdisp |-> ""]

\* state.py:47  self.recent_logs.insert(0, ...)
AddLogInsert(h) ==
    /\ hpc[h] = "idle"
    /\ hist.logcalls < MaxLogCalls
    /\ recent_logs' = <<Line("No valid tracks found", h)>> \o recent_logs
    /\ hpc' = [hpc EXCEPT ![h] = "log_len"]
    /\ hist' = [hist EXCEPT !.logcalls = @ + 1]
    /\ UNCHANGED <<is_downloading, total_tracks, completed_tracks, success_count,
                   fail_count, current_track, queue, cfgvars, cleanvars, failed_file, hloc,
                   wpc, wloc>>

\* state.py:48  if len(self.recent_logs) > 50
AddLogLen(h) ==
    /\ hpc[h] = "log_len"
    /\ hpc' = [hpc EXCEPT ![h] = IF Len(recent_logs) > LogCap THEN "log_pop" ELSE "idle"]
    /\ UNCHANGED <<appstate, cfgvars, cleanvars, failed_file, hloc, wpc, wloc, hist>>

\* state.py:49  self.recent_logs.pop()
AddLogPop(h) ==
    /\ hpc[h] = "log_pop"
    /\ recent_logs' = SubSeq(recent_logs, 1, Len(recent_logs) - 1)
    /\ hpc' = [hpc EXCEPT ![h] = "idle"]
    /\ UNCHANGED <<is_downloading, total_tracks, completed_tracks, success_count,
                   fail_count, current_track, queue, cfgvars, cleanvars, failed_file, hloc,
                   wpc, wloc, hist>>

NextLog == \E h \in Handlers : AddLogInsert(h) \/ AddLogLen(h) \/ AddLogPop(h)

SpecLog == InitLog /\ [][NextLog]_vars

\* ------------------------------------------------ remove_duplicate_downloads.py
\* file names, as sequences of code points (compared as Python compares str)
FileNames == {<<1>>, <<1, 2>>, <<2>>}
\* SHA-256 digests of file contents
Digests == {"x", "y"}

\* the directories the script may find: at most one file per name
Directories ==
    {D \in SUBSET [name : FileNames, hash : Digests, readable : BOOLEAN] :
        \A f, g \in D : f.name = g.name => f = g}

\* str comparison a < b
RECURSIVE LexLess(_, _)
LexLess(a, b) ==
    IF a = <<>> THEN b # <<>>
    ELSE IF b = <<>> THEN FALSE
    ELSE IF Head(a) # Head(b) THEN Head(a) < Head(b)
    ELSE LexLess(Tail(a), Tail(b))

\* remove_duplicate_downloads.py:72  sorted(file_list, key=lambda p: p.name)
RECURSIVE SortedByName(_)
SortedByName(S) ==
    IF S = {} THEN <<>>
    ELSE LET first == CHOOSE f \in S : \A g \in S \ {f} : LexLess(f.name, g.name)
         IN  <<first>> \o SortedByName(S \ {first})

\* (mutant of Dupes: the last of the sorted files kept instead of the first)
DupesAllButLast(sorted) == SubSeq(sorted, 1, Len(sorted) - 1)

\* remove_duplicate_downloads.py:73-74  keep = sorted_files[0]; dupes = sorted_files[1:]
Dupes(sorted) == Tail(sorted)

\* remove_duplicate_downloads.py:55-61  hash_to_files: the files that could be
\* hashed, by digest; a file whose hashing raises is skipped with a warning
HashToFiles(files) ==
    [d \in {f.hash : f \in {g \in files : g.readable}} |->
        {f \in files : f.readable /\ f.hash = d}]

\* The script started in a directory of downloads/ files, the web application
\* being idle.
InitCleanup ==
    /\ is_downloading = FALSE
    /\ total_tracks = 0
    /\ completed_tracks = 0
    /\ success_count = 0
    /\ fail_count = 0
    /\ current_track = ""
    /\ recent_logs = <<>>
    /\ queue = <<>>
    /\ PREFERRED_QUALITY = "flac"
    /\ ALLOW_QUALITY_FALLBACK = TRUE
    /\ failed_file = <<>>
    /\ hpc = [h \in Handlers |-> "idle"]
    /\ hloc = [h \in Handlers |-> NoLocals]
    /\ wpc = [w \in Runs |-> "unborn"]
    /\ wloc = [w \in Runs |-> NoRun]
    /\ hist = [enqueues |-> 0, starts |-> 0, submitted |-> <<>>, serial |-> TRUE,
               midrun |-> {}, resp |-> "", logcalls |-> 0, fbok |-> 0, pops |-> 0,
               appended |-> 0, dispatched |-> 0, polls |-> 0, status |-> NoStatus,
               known |-> [h \in Handlers |-> {}], lastdisp |-> ""]
    /\ downloads \in Directories
    /\ cleanup = [pc |-> "idle", listing |-> {}, todo |-> <<>>, failed |-> FALSE]

\* remove_duplicate_downloads.py:44-74  list the files, return when there is none,
\* hash them, and for every digest with more than one file sort its files by
\* name and take all but the first as duplicates
CleanupScan ==
    /\ cleanup.pc = "idle"
    /\ LET groups == HashToFiles(downloads)
       IN  cleanup' = [pc |-> IF downloads = {} THEN "done" ELSE "deleting",
                       listing |-> downloads,
                       todo |-> [d \in DOMAIN groups |->
                                   IF Cardinality(groups[d]) <= 1 THEN <<>>
                                   ELSE Dupes(SortedByName(groups[d]))],
                       failed |-> FALSE]
    /\ UNCHANGED <<appstate, cfgvars, failed_file, hpc, hloc, wpc, wloc, hist, downloads>>

\* remove_duplicate_downloads.py:77-84  dupe.unlink(), for the next duplicate of
\* digest d; an exception of unlink is printed and the loop goes on. (The digests
\* are visited in the order of the directory listing, which the file system
\* decides.)
CleanupUnlink(d) ==
    /\ cleanup.pc = "deleting"
    /\ d \in DOMAIN cleanup.todo
    /\ cleanup.todo[d] # <<>>
    /\ \E deleted \in BOOLEAN :
          /\ downloads' = IF deleted THEN downloads \ {Head(cleanup.todo[d])}
                          ELSE downloads
          /\ cleanup' = [cleanup EXCEPT !.todo[d] = Tail(@),
                                        !.failed = @ \/ ~deleted]
    /\ UNCHANGED <<appstate, cfgvars, failed_file, hpc, hloc, wpc, wloc, hist>>

\* remove_duplicate_downloads.py:86-92  every group visited: return 0
CleanupReturn ==
    /\ cleanup.pc = "deleting"
    /\ \A d \in DOMAIN cleanup.todo : cleanup.todo[d] = <<>>
    /\ cleanup' = [cleanup EXCEPT !.pc = "done"]
    /\ UNCHANGED <<appstate, cfgvars, failed_file, hpc, hloc, wpc, wloc, hist, downloads>>

NextCleanup ==
    \/ CleanupScan
    \/ \E d \in Digests : CleanupUnlink(d)
    \/ CleanupReturn

SpecCleanup == InitCleanup /\ [][NextCleanup]_vars

\* ------------------------------------------------------------------ claims
\* positions of a background thread inside the loop of process_queue
InDrainLoop == {"log_started", "pop_check", "pop", "set_current", "attempt1",
                "attempt2", "success_wr", "success_log", "fail_wr", "fail_log",
                "log_failure", "completed_rd", "completed_wr"}

\* the background threads whose drain loop is active
Draining == {w \in Runs : wpc[w] \in InDrainLoop}

\* C1: however start requests interleave, at most one drain loop is active at a
\* time.
C1_AtMostOneDrainLoop == Cardinality(Draining) <= 1

\* C2: when a drain loop observes the queue empty, succeeded + failed equals
\* completed and completed equals total. Stated for a run beside which no other
\* background thread was ever started.
C2_CountersAgreeAtEmpty ==
    \A w \in Runs :
       (wpc[w] = "clear_flag" /\ \A v \in Runs \ {w} : wpc[v] = "unborn") =>
          /\ success_count + fail_count = completed_tracks
          /\ completed_tracks = total_tracks

\* C3: in every reachable state completed <= total.
C3_CompletedAtMostTotal == completed_tracks <= total_tracks

\* C4: in every reachable state succeeded + failed <= completed.
C4_OutcomesAtMostCompleted == success_count + fail_count <= completed_tracks

\* the distinct elements of s in the order of their first occurrence
FirstSeen(s) ==
    LET keep == {i \in 1..Len(s) : \A j \in 1..(i - 1) : s[j] # s[i]}
        nth(k) == CHOOSE i \in keep : Cardinality({j \in keep : j <= i}) = k
    IN  [k \in 1..Cardinality(keep) |-> s[nth(k)]]

\* C5: after enqueue calls made one after the other with no dequeue in between,
\* the queue holds each distinct submitted track once, in first-seen order, and
\* total is the number of distinct tracks.
C5_QueueIsFirstSeen ==
    hist.serial =>
       /\ (\A h \in Handlers : hpc[h] # "enq_loop") => queue = FirstSeen(hist.submitted)
       /\ (\A h \in Handlers : hpc[h] \notin {"enq_loop", "enq_len", "enq_total"})
             => total_tracks = Cardinality(Range(hist.submitted))

\* C5 witness: the tracks A, B, A have been submitted and both calls have returned
C5_Witness ==
    /\ hist.serial
    /\ hist.submitted = <<"A - X", "B - Y", "A - X">>
    /\ \A h \in Handlers : hpc[h] = "idle"
    /\ queue = <<"A - X", "B - Y">>
    /\ total_tracks = 2

\* C6: under any interleaving of concurrent enqueue calls the queue never holds
\* the same track twice, and once the calls have returned total is the length of
\* the queue they produced.
C6_NoDuplicateNoLostInsert ==
    /\ NoDuplicates(queue)
    /\ (\A h \in Handlers : hpc[h] \notin InAddTracks) => total_tracks = Len(queue)

\* positions of a background thread that has counted its track as failed
MarkedFailed == {"fail_log", "log_failure"}

\* C7 (as stated): a track is marked failed after exactly two attempts when
\* fallback is enabled and after exactly one when it is disabled, and no dispatch
\* makes more than two attempts.
C7_FallbackRetriedOnce ==
    \A w \in Runs :
       /\ wloc[w].attempts <= 2
       /\ wpc[w] \in MarkedFailed =>
             wloc[w].attempts = IF ALLOW_QUALITY_FALLBACK THEN 2 ELSE 1

\* C7 (amended): a track is marked failed after exactly two attempts when fallback
\* is enabled and the preferred format is not already "mp3", after exactly one
\* attempt otherwise, and no dispatch makes more than two attempts.
C7_FallbackRetriedOnceUnlessMp3 ==
    \A w \in Runs :
       /\ wloc[w].attempts <= 2
       /\ wpc[w] \in MarkedFailed =>
             wloc[w].attempts =
                IF ALLOW_QUALITY_FALLBACK /\ PREFERRED_QUALITY # "mp3" THEN 2 ELSE 1

\* C7 witness: a track has been marked failed after its fallback retry
C7_Witness ==
    \E w \in Runs : wpc[w] = "fail_log" /\ wloc[w].attempts = 2 /\ fail_count = 1

\* background threads that have ended: process_queue returned ("done") or an
\* exception reached run_async_process ("aborted")
Ended == {"done", "aborted"}

\* no request is being served and every background thread that was started has
\* drained the queue and returned
Quiescent ==
    /\ \A h \in Handlers : hpc[h] = "idle"
    /\ \A w \in Runs : wpc[w] \in {"unborn", "done"}

\* C8: a track enqueued while is_downloading is true is dispatched by the run in
\* progress without a further start: once the runs have drained the queue and
\* returned, no such track is still queued.
C8_MidRunTracksDispatched == Quiescent => hist.midrun = {}

\* C9: whatever outcome an attempt has, a background thread that has recorded one
\* ends only after the queue has been emptied.
C9_FailuresNeverAbort ==
    \A w \in Runs :
       (wpc[w] \in Ended /\ success_count + fail_count > 0) => queue = <<>>

\* C10: a failed write of the failure log does not abort the accounting: when the
\* background thread has ended, every track counted as failed (or succeeded) is
\* counted as completed.
C10_FailedTrackStillCompleted ==
    \A w \in Runs :
       wpc[w] \in Ended => completed_tracks = success_count + fail_count

\* no request is being served and no background thread is running
Settled ==
    /\ \A h \in Handlers : hpc[h] = "idle"
    /\ \A w \in Runs : wpc[w] \in {"unborn"} \cup Ended

\* C11: every track counted as failed has its record in the failure log: once
\* the background thread has ended, the log holds as many records as failed
\* counts.
C11_FailureRecordsMatchFailed == Settled => Len(failed_file) = fail_count

\* positions of a background thread that is about to invoke the external tool
\* (or is waiting for it to return)
Invoking == {"attempt1", "attempt2"}

\* C12: every invocation of the external tool, the fallback retry included, is
\* preceded by a rate-limit delay of its own: a thread about to invoke the tool
\* has slept since its previous invocation.
C12_DelayBeforeEveryAttempt ==
    \A w \in Runs : wpc[w] \in Invoking => wloc[w].slept

\* positions of a background thread inside "async with self.semaphore": it holds
\* a slot of its limiter and has an attempt in flight
InSemaphore == {"attempt1", "attempt2", "success_wr", "success_log", "fail_wr",
                "fail_log", "log_failure"}

\* the attempts in flight across the whole process
InFlight == {w \in Runs : wpc[w] \in InSemaphore}

\* C13: at every moment the number of attempts in flight in the process is at
\* most MAX_CONCURRENT_DOWNLOADS.
C13_InFlightAtMostLimit == Cardinality(InFlight) <= MAX_CONCURRENT_DOWNLOADS

\* the slots of its limiter that background thread w holds
SlotsHeld(w) ==
    IF wpc[w] \in InSemaphore THEN MAX_CONCURRENT_DOWNLOADS - wloc[w].permits ELSE 0

\* C14: with at least two tracks queued, a run gets to a state in which a second
\* attempt has started while the first is still in flight: the run holds two
\* slots of its limiter.
C14_SecondAttemptWhileFirstInFlight ==
    Len(queue) >= 2 => <>(\E w \in Runs : SlotsHeld(w) >= 2)

\* C14 (what the code does): a run never has more than one attempt in flight.
C14_OneAttemptPerRun == \A w \in Runs : SlotsHeld(w) <= 1

\* C15: a start request that finds the queue empty answers 'empty_queue', leaves
\* the flag alone and spawns no background thread.
C15_EmptyQueueNeverStarts ==
    [][\A h \in Handlers :
          (hpc[h] = "start_queue" /\ hpc'[h] = "idle" /\ queue = <<>>) =>
             /\ hist'.resp = "empty_queue"
             /\ is_downloading' = is_downloading
             /\ wpc' = wpc]_vars

\* C15 witness: a start request on the empty queue, with no run active, has been
\* answered 'empty_queue'; no thread was spawned and the flag is false
C15_Witness ==
    /\ hist.resp = "empty_queue"
    /\ hist.starts = 1
    /\ queue = <<>>
    /\ \A h \in Handlers : hpc[h] = "idle"
    /\ \A w \in Runs : wpc[w] = "unborn"
    /\ ~is_downloading

\* C16: when the external tool is missing the run is Running for a moment and
\* then Idle: at the moment the missing tool has been detected, and until the
\* exception handler clears it, the active flag is true.
C16_ToolMissingRunningThenIdle ==
    \A w \in Runs : wloc[w].exc = "FileNotFoundError" => is_downloading

\* C17: in every state, and so in every state a status request can read
\* (get_status returns state.recent_logs as it is at that moment), the log ring
\* holds at most LogCap lines.
C17_LogRingAtMostCap == Len(recent_logs) <= LogCap

\* positions of a background thread between two dispatches, or after the last
BetweenDispatches == {"pop_check", "pop", "clear_flag", "fin_log", "done"}

\* C18: in one run, when every track completed so far failed its preferred
\* attempt and succeeded on the fallback attempt, each of them is counted as one
\* success, none as a failure, and the failure log is untouched.
C18_FallbackSuccessCountedOnce ==
    \A w \in Runs :
       (wpc[w] \in BetweenDispatches /\ hist.fbok = completed_tracks) =>
          /\ success_count = completed_tracks
          /\ fail_count = 0
          /\ failed_file = <<>>

\* C18 witness: two tracks, both succeeded on the fallback attempt, the run has
\* returned: succeeded = 2, failed = 0, nothing in the failure log
C18_Witness ==
    /\ wpc[1] = "done"
    /\ hist.fbok = 2
    /\ completed_tracks = 2
    /\ success_count = 2
    /\ fail_count = 0
    /\ failed_file = <<>>

\* C19: every run that has begun its drain loop eventually observes the queue
\* empty and stops with the active flag false.
C19_RunDrainsQueueAndStops ==
    \A w \in Runs :
       (wpc[w] = "log_started") ~> (wpc[w] = "done" /\ queue = <<>> /\ ~is_downloading)

\* C19 (what the code does): every run ends, by the return of process_queue or by
\* an exception, and the active flag is false from then on.
C19_RunEndsWithFlagFalse == <>[](wpc[1] \in Ended /\ ~is_downloading)

\* C20: tracks are dispatched in the order of the queue: no attempt has started
\* for a track while a track that was ahead of it in the queue, and was dequeued
\* before it, still waits for its attempt to start.
C20_FifoDispatch ==
    \A v, w \in Runs :
       (wpc[v] = "set_current" /\ wpc[w] \in InSemaphore) =>
          wloc[w].ticket < wloc[v].ticket

\* the background threads that hold a dequeued track and have not yet called
\* download_track with it
Holding == {w \in Runs : wpc[w] = "set_current"}

\* C21: every entry appended to the queue is either still queued or was handed
\* to exactly one thread, and every entry handed out is dispatched by that
\* thread: entries appended = entries queued + entries dequeued, and entries
\* dequeued = calls of download_track + threads about to make that call.
C21_EachEntryConsumedOnce ==
    /\ hist.appended = Len(queue) + hist.pops
    /\ hist.pops = hist.dispatched + Cardinality(Holding)

\* C21 witness: two drain loops ran at once over a queue of one entry and both
\* saw it non-empty; one of them was handed the entry and dispatched it, the
\* pop of the other found the list empty
C21_Witness ==
    /\ hist.appended = 1
    /\ hist.dispatched = 1
    /\ queue = <<>>
    /\ \E v, w \in Runs :
          v # w /\ wpc[v] \in InSemaphore /\ wloc[w].exc = "IndexError"

\* C22: a status request changes nothing of the shared state (queue, counters,
\* active flag, current track, log ring), and it can be served in every state,
\* an attempt in flight or not.
C22_StatusIsPureRead ==
    /\ [][hist'.polls # hist.polls => UNCHANGED <<appstate, failed_file, wpc, wloc>>]_vars
    /\ [](hist.polls < MaxPolls => ENABLED (\E h \in Handlers : GetStatus(h)))

\* C22 witness: a status request has been answered while an attempt was in
\* flight, and the state is as the answer says
C22_Witness ==
    /\ hist.polls = 1
    /\ wpc[1] \in Invoking
    /\ hist.status.is_downloading
    /\ hist.status.current_track = wloc[1].track
    /\ hist.status.logs = recent_logs
    /\ current_track = wloc[1].track

\* the background threads that have been spawned
Spawned == {w \in Runs : wpc[w] # "unborn"}

\* C23: a start request is answered 'already_running' exactly when it finds the
\* flag true, 'empty_queue' when it then finds the queue empty and 'started' when
\* it finds the queue non-empty; the steps of a rejected request change neither
\* the queue, the counters, the flag nor the log ring and spawn no thread, and an
\* accepted request spawns exactly one.
C23_RejectedStartIsNoOp ==
    [][/\ hist'.starts # hist.starts =>
             /\ UNCHANGED <<appstate, wpc>>
             /\ IF is_downloading
                THEN hpc' = hpc /\ hist'.resp = "already_running"
                ELSE \E h \in Handlers :
                        hpc[h] = "idle" /\ hpc' = [hpc EXCEPT ![h] = "start_queue"]
       /\ \A h \in Handlers :
             (hpc[h] = "start_queue" /\ hpc'[h] = "idle") =>
                /\ UNCHANGED appstate
                /\ IF queue = <<>>
                   THEN hist'.resp = "empty_queue" /\ wpc' = wpc
                   ELSE /\ hist'.resp = "started"
                        /\ Cardinality({w \in Runs : wpc[w] = "unborn" /\ wpc'[w] = "init"}) = 1
                        /\ \A w \in Runs : wpc[w] # "unborn" => wpc'[w] = wpc[w]]_vars

\* C23 witness: a second start request, made while the first run was going on,
\* has been answered 'already_running' and no second thread exists
C23_Witness ==
    /\ hist.starts = 2
    /\ hist.resp = "already_running"
    /\ is_downloading
    /\ Cardinality(Spawned) = 1
    /\ \A h \in Handlers : hpc[h] = "idle"

\* positions of a background thread on the failure branch of download_track
OnFailureBranch == {"fail_wr", "fail_log", "log_failure"}

\* C24: an invocation that timed out is a failed attempt with the message
\* "Timeout", a non-zero exit is a failed attempt with the captured output as its
\* message, and after either the track is retried when the fallback applies and
\* is counted as failed when it does not, as after any failed attempt.
C24_TimeoutIsAttemptFailure ==
    \A w \in Runs :
       /\ wloc[w].last = "timeout" => wloc[w].msg = "Timeout"
       /\ wloc[w].last = "exit" => wloc[w].msg = "output"
       /\ wloc[w].last \in Outcomes \ {"ok"} =>
             wpc[w] \in (IF wloc[w].attempts = 1 /\ FallbackAllowed
                          THEN {"attempt2"} ELSE OnFailureBranch)

\* C24 witness: the preferred attempt timed out and the track is about to be
\* retried with the fallback format
C24_Witness ==
    /\ wpc[1] = "attempt2"
    /\ wloc[1].last = "timeout"
    /\ wloc[1].msg = "Timeout"
    /\ recent_logs[1] = Line("Retrying (MP3)", wloc[1].track)

\* the number of lines of one kind in the log ring
CountKind(logs, kind) == Cardinality({i \in 1..Len(logs) : logs[i].kind = kind})

\* C25: every call of add_tracks_to_queue, a call that adds nothing included,
\* appends one line summarizing its batch: after calls made one after the other,
\* the ring holds one "Added ..." line for every call.
C25_OneLogLinePerEnqueue ==
    (hist.serial /\ \A h \in Handlers : hpc[h] \notin InAddTracks) =>
       CountKind(recent_logs, "Added") = hist.enqueues

\* what the claim says of the directory the script leaves: no two files with the
\* same digest, and of the files it found exactly those are left that have the
\* smallest name among the files of their digest
Deduplicated ==
    /\ \A f, g \in downloads : f.hash = g.hash => f = g
    /\ \A f \in cleanup.listing :
          f \in downloads <=>
             \A g \in cleanup.listing \ {f} : g.hash = f.hash => LexLess(f.name, g.name)

Dequeued ==
    {wloc[w].track : w \in Runs} \cup
    {recent_logs[i].track : i \in {j \in 1..Len(recent_logs) :
          recent_logs[j].kind \in {"Success", "Success (MP3)", "Failed"}}}

\* C27: an add_tracks_to_queue call that meets a track which has been dequeued
\* (in flight or completed) and which was not in the queue when the call was
\* made, nor added by the call before, appends it: the queue grows by that one
\* entry; and every entry that is dequeued is handed to download_track, whatever
\* was dispatched before.
C27_DequeuedTrackAcceptedAgain ==
    [][/\ \A h \in Handlers :
             (hpc[h] = "enq_loop" /\ hloc'[h].i # hloc[h].i
                 /\ hloc[h].batch[hloc[h].i] \in Dequeued
                 /\ hloc[h].batch[hloc[h].i] \notin hist.known[h]
                 /\ \A j \in 1..(hloc[h].i - 1) :
                        hloc[h].batch[j] # hloc[h].batch[hloc[h].i])
                => queue' = Append(queue, hloc[h].batch[hloc[h].i])
       /\ hist'.dispatched + Cardinality(Holding') = hist'.pops
       /\ \A w \in Runs :
             (wpc[w] = "set_current" /\ wpc'[w] # "set_current")
                => /\ wpc'[w] = "attempt1"
                   /\ current_track' = wloc[w].track
                   /\ hist'.dispatched = hist.dispatched + 1]_vars

\* C27 witness: "A - X" was downloaded, uploaded again after that, and is now
\* in its second download
C27_Witness ==
    /\ \E i \in 1..Len(recent_logs) :
          recent_logs[i] = Line("Success", "A - X")
    /\ \E w \in Runs : wpc[w] = "attempt1" /\ wloc[w].track = "A - X"
    /\ hist.appended = 2
    /\ hist.dispatched = 2

\* C28: whenever a download attempt is in flight, is_downloading is true (a
\* status request that reads false finds no track being downloaded).
C28_InFlightImpliesFlag == InFlight # {} => is_downloading

\* C29: within one drain loop at most one attempt is in flight: download_track
\* is entered with every slot of the limiter free and with every earlier dispatch
\* completed, and the k-th track to complete is the k-th track dispatched.
C29_OneAtATimeInDispatchOrder ==
    [][\A w \in Runs :
          /\ SlotsHeld(w)' <= 1
          /\ (wpc[w] = "set_current" /\ wpc'[w] = "attempt1")
                => /\ wloc[w].permits = MAX_CONCURRENT_DOWNLOADS
                   /\ completed_tracks = hist.dispatched
                   /\ wloc[w].ticket = hist.dispatched + 1
          /\ (wpc[w] \in InSemaphore /\ wpc'[w] = "completed_rd")
                => wloc[w].ticket = completed_tracks + 1]_vars

\* C29 witness: the second track of the queue is in its attempt, the first has
\* completed and its slot has been given back
C29_Witness ==
    /\ wpc[1] \in Invoking
    /\ wloc[1].ticket = 2
    /\ completed_tracks = 1
    /\ SlotsHeld(1) = 1

\* C30: at the moment add_tracks_to_queue has stored total, total is the length
\* of the queue as it then is, whatever has been dequeued or completed before.
C30_TotalIsQueueLengthAfterEnqueue ==
    [][\A h \in Handlers :
          (hpc[h] = "enq_total" /\ hpc'[h] # "enq_total")
             => total_tracks' = Len(queue')]_vars

\* C31: every dispatched track is counted once in succeeded or failed and once
\* in completed: when the background thread has ended, the calls of
\* download_track number success_count + fail_count, and completed_tracks.
C31_EachDispatchCountedOnce ==
    \A w \in Runs :
       wpc[w] \in Ended => /\ hist.dispatched = success_count + fail_count
                           /\ hist.dispatched = completed_tracks

\* C31 (what the code does): no step of a request handler (upload, start,
\* status) changes completed, succeeded or failed.
C31_HandlersLeaveCounters ==
    [][(hpc' # hpc) => <<completed_tracks, success_count, fail_count>>' =
                       <<completed_tracks, success_count, fail_count>>]_vars

\* the log ring holds a 'Critical Error' line
CriticalLogged == \E i \in 1..Len(recent_logs) : recent_logs[i].kind = "Critical Error"

\* C32: whenever a background thread ends, by the return of process_queue or by
\* an exception, is_downloading is false at that moment, and when it ends by an
\* exception the log holds a 'Critical Error' line.
C32_FlagFalseWhenRunEnds ==
    [][\A w \in Runs :
          (wpc[w] \notin Ended /\ wpc'[w] \in Ended)
             => /\ ~is_downloading'
                /\ wpc'[w] = "aborted" => CriticalLogged']_vars

\* C32 (what the code does): once every background thread that was spawned has
\* ended, is_downloading is false; and a thread that ends by an exception has
\* logged 'Critical Error' and leaves the flag false.
C32_FlagFalseWhenAllEnded ==
    [][/\ (\A w \in Runs : wpc'[w] \in {"unborn"} \cup Ended) => ~is_downloading'
       /\ \A w \in Runs :
             (wpc[w] # "aborted" /\ wpc'[w] = "aborted")
                => ~is_downloading' /\ CriticalLogged']_vars

\* C33: current_track changes only in the step that enters download_track, which
\* sets it to the track dispatched, and nothing clears it: in every state, and so
\* after a run has finished with the flag false, it names the track of the last
\* call of download_track ("" before the first).
C33_CurrentTrackIsLastDispatched ==
    [][/\ current_track' = hist'.lastdisp
       /\ current_track' # current_track
             => \E w \in Runs : /\ wpc[w] = "set_current"
                                /\ wpc'[w] = "attempt1"
                                /\ current_track' = wloc[w].track
       /\ hist'.dispatched > 0 => current_track' # ""]_vars

\* C33 witness: the run has downloaded "A - X" and then "B - Y", has returned
\* and cleared the flag: current_track is still "B - Y"
C33_Witness ==
    /\ wpc[1] = "done"
    /\ ~is_downloading
    /\ hist.dispatched = 2
    /\ completed_tracks = 2
    /\ queue = <<>>
    /\ current_track = "B - Y"

====
